---- MODULE Spec2Model ----
(***************************************************************************)
(* A model of libks_ini: the format-preserving INI document engine.        *)
(*                                                                         *)
(* Text is a sequence of one-character strings.  Positions are 0-based     *)
(* byte offsets as in the Rust source; Slice(s, a, b) is &s[a..b].         *)
(***************************************************************************)
EXTENDS Integers, Sequences, FiniteSets, TLC

VARIABLES
    source,          \* Ini::source / Parser::source
    start_line,      \* Parser::start_line
    global_section,  \* Ini::global_section (its items)
    sections,        \* Ini::sections (each element: the items of one section)
    section_index,   \* Ini::section_index: lowercased key -> positions
    pc,              \* "parsing" inside Ini::new, "ready" once constructed
    last,            \* the last public call made on the document
    pre,             \* the document as it was before that call
    nops,            \* number of public mutation calls made so far
    panicked         \* a call has panicked (the program has aborted)

vars == <<source, start_line, global_section, sections, section_index,
          pc, last, pre, nops, panicked>>

----------------------------------------------------------------------------
(* Bounds of the model *)

\* longest raw source text enumerated for the parser
MaxSrcLen == 5
\* most mutation calls applied to one document
MaxOps == 2
\* most blocks concatenated into one document to be edited
MaxBlocks == 3
\* longest raw text with tabs enumerated for the scanning of lines
MaxLineLen == 4

----------------------------------------------------------------------------
(* Text helpers *)

Slice(s, a, b) == SubSeq(s, a + 1, b)

RECURSIVE Concat(_)
Concat(ss) == IF ss = <<>> THEN <<>> ELSE Head(ss) \o Concat(Tail(ss))

to_ascii_lowercase_char(c) ==
    CASE c = "A" -> "a" [] c = "B" -> "b" [] c = "J" -> "j" [] c = "K" -> "k"
      [] c = "S" -> "s" [] c = "T" -> "t" [] c = "U" -> "u" [] c = "V" -> "v"
      [] OTHER -> c

to_ascii_lowercase(s) == [i \in 1..Len(s) |-> to_ascii_lowercase_char(s[i])]

eq_ignore_ascii_case(a, b) == to_ascii_lowercase(a) = to_ascii_lowercase(b)

None == [some |-> FALSE, v |-> <<>>]
Some(x) == [some |-> TRUE, v |-> x]

----------------------------------------------------------------------------
(* span.rs *)

Sliced(a, b) == [owned |-> FALSE, start |-> a, end |-> b, text |-> <<>>]
Owned(s) == [owned |-> TRUE, start |-> 0, end |-> 0, text |-> s]

\* Span::of
SpanOf(span, s) == IF span.owned THEN span.text ELSE Slice(s, span.start, span.end)

----------------------------------------------------------------------------
(* item/mod.rs *)

NoSpan == Owned(<<>>)

ItemError(line) == [kind |-> "Error", key |-> line, value |-> NoSpan, pad |-> <<>>]
ItemBlank(line) == [kind |-> "Blank", key |-> line, value |-> NoSpan, pad |-> <<>>]
ItemSection(key, before, after) ==
    [kind |-> "Section", key |-> key, value |-> NoSpan, pad |-> <<before, after>>]
ItemComment(text, before, after) ==
    [kind |-> "Comment", key |-> text, value |-> NoSpan, pad |-> <<before, after>>]
ItemProperty(key, value, before, before_eq, after_eq, after) ==
    [kind |-> "Property", key |-> key, value |-> value,
     pad |-> <<before, before_eq, after_eq, after>>]

\* impl Display for SourcedItem
ItemToString(item, src) ==
    CASE item.kind = "Error" -> SpanOf(item.key, src)
      [] item.kind = "Blank" -> SpanOf(item.key, src)
      [] item.kind = "Section" ->
            SpanOf(item.pad[1], src) \o <<"[">> \o SpanOf(item.key, src)
            \o <<"]">> \o SpanOf(item.pad[2], src)
      [] item.kind = "Comment" ->
            SpanOf(item.pad[1], src) \o <<";">> \o SpanOf(item.key, src)
            \o SpanOf(item.pad[2], src)
      [] item.kind = "Property" ->
            SpanOf(item.pad[1], src) \o SpanOf(item.key, src)
            \o SpanOf(item.pad[2], src) \o <<"=">> \o SpanOf(item.pad[3], src)
            \o SpanOf(item.value, src) \o SpanOf(item.pad[4], src)

----------------------------------------------------------------------------
(* parse/trim.rs *)

\* trimmed_range_start leaving the leading spaces in
trimmed_range_start_none(s) == IF s = <<>> THEN Len(s) ELSE 0

trimmed_range_start(s) ==
    IF \E i \in 1..Len(s) : s[i] # " "
    THEN (CHOOSE i \in 1..Len(s) : s[i] # " " /\ \A j \in 1..(i-1) : s[j] = " ") - 1
    ELSE Len(s)

trimmed_range_end(s) ==
    IF \E i \in 1..Len(s) : s[i] # " "
    THEN CHOOSE i \in 1..Len(s) : s[i] # " " /\ \A j \in (i+1)..Len(s) : s[j] = " "
    ELSE 0

trimmed_range(s) ==
    LET start == trimmed_range_start(s) IN
    IF start = Len(s) THEN <<Len(s), Len(s)>>
    ELSE <<start, trimmed_range_end(s)>>

----------------------------------------------------------------------------
(* parse/line.rs *)

\* memchr2 / memchr3: offset of the first byte of s that is in bytes, or -1
memchr(bytes, s) ==
    IF \E i \in 1..Len(s) : s[i] \in bytes
    THEN (CHOOSE i \in 1..Len(s) : s[i] \in bytes /\ \A j \in 1..(i-1) : s[j] \notin bytes) - 1
    ELSE -1

Min(a, b) == IF a < b THEN a ELSE b

\* where the line ends, which byte ended it ("" for none) and where its '=' is (-1 for none)
line_end(s) ==
    LET i == memchr({"\r", "\n", "="}, s) IN
    IF i = -1 THEN [end |-> Len(s), line_ending |-> "", eq |-> -1]
    ELSE IF s[i + 1] = "="
         THEN LET rest == Slice(s, i + 1, Len(s))
                  j == memchr({"\r", "\n"}, rest)
              IN IF j = -1 THEN [end |-> Len(s), line_ending |-> "", eq |-> i]
                 ELSE [end |-> i + 1 + j, line_ending |-> rest[j + 1], eq |-> i]
         ELSE [end |-> i, line_ending |-> s[i + 1], eq |-> -1]

\* start_next one past the line end whatever the terminator is
line_start_next_single(s, end, line_ending) == Min(end + 1, Len(s))

\* start_next left on the terminator instead of after it
line_start_next_at_end(s, end, line_ending) == Min(end, Len(s))

line_start_next(s, end, line_ending) ==
    IF line_ending = "\r" /\ end + 1 < Len(s) /\ s[end + 2] = "\n"
    THEN Min(end + 2, Len(s))
    ELSE Min(end + 1, Len(s))

next_line(s) ==
    IF s = <<>> THEN None
    ELSE LET e == line_end(s)
             tr == trimmed_range(Slice(s, 0, e.end))
         IN Some([start_trimmed |-> tr[1], eq |-> e.eq, end_trimmed |-> tr[2],
                  end |-> e.end,
                  start_next |-> line_start_next(s, e.end, e.line_ending)])

\* Line::offset leaving end_trimmed relative to the line
LineOffset_end_trimmed_relative(l, offset) ==
    [start_trimmed |-> l.start_trimmed + offset,
     end_trimmed |-> l.end_trimmed,
     eq |-> IF l.eq = -1 THEN -1 ELSE l.eq + offset,
     end |-> l.end + offset,
     start_next |-> l.start_next + offset]

\* Line::offset
LineOffset(l, offset) ==
    [start_trimmed |-> l.start_trimmed + offset,
     end_trimmed |-> l.end_trimmed + offset,
     eq |-> IF l.eq = -1 THEN -1 ELSE l.eq + offset,
     end |-> l.end + offset,
     start_next |-> l.start_next + offset]

----------------------------------------------------------------------------
(* parse/mod.rs *)

\* Parser::next keeping only the trimmed text of a line it cannot parse
ParseItem_error_trimmed(src, sl, l) ==
    LET trimmed == Slice(src, l.start_trimmed, l.end_trimmed)
        line == Sliced(l.start_trimmed, l.end_trimmed)
        pad0 == Sliced(sl, l.start_trimmed)
        pad1 == Sliced(l.end_trimmed, l.start_next)
    IN IF trimmed = <<>> THEN ItemBlank(Sliced(sl, l.start_next))
       ELSE IF trimmed[1] = "["
       THEN IF trimmed[Len(trimmed)] = "]"
            THEN ItemSection(Sliced(l.start_trimmed + 1, l.end_trimmed - 1), pad0, pad1)
            ELSE ItemError(line)
       ELSE IF trimmed[1] = ";"
       THEN ItemComment(Sliced(l.start_trimmed + 1, l.end_trimmed), pad0, pad1)
       ELSE IF l.eq # -1
       THEN LET end_key == l.start_trimmed
                           + trimmed_range_end(Slice(src, l.start_trimmed, l.eq))
                start_untrimmed == l.eq + 1
                start_value == start_untrimmed
                    + trimmed_range_start(Slice(src, start_untrimmed, l.end_trimmed))
            IN ItemProperty(Sliced(l.start_trimmed, end_key),
                            Sliced(start_value, l.end_trimmed),
                            pad0, Sliced(end_key, l.eq),
                            Sliced(start_untrimmed, start_value), pad1)
       ELSE ItemError(line)

\* Parser::next looking for '=' before looking at the first character
ParseItem_eq_first(src, sl, l) ==
    LET trimmed == Slice(src, l.start_trimmed, l.end_trimmed)
        line == Sliced(sl, l.start_next)
        pad0 == Sliced(sl, l.start_trimmed)
        pad1 == Sliced(l.end_trimmed, l.start_next)
    IN IF trimmed = <<>> THEN ItemBlank(line)
       ELSE IF l.eq # -1
       THEN LET end_key == l.start_trimmed
                           + trimmed_range_end(Slice(src, l.start_trimmed, l.eq))
                start_untrimmed == l.eq + 1
                start_value == start_untrimmed
                    + trimmed_range_start(Slice(src, start_untrimmed, l.end_trimmed))
            IN ItemProperty(Sliced(l.start_trimmed, end_key),
                            Sliced(start_value, l.end_trimmed),
                            pad0, Sliced(end_key, l.eq),
                            Sliced(start_untrimmed, start_value), pad1)
       ELSE IF trimmed[1] = "["
       THEN IF trimmed[Len(trimmed)] = "]"
            THEN ItemSection(Sliced(l.start_trimmed + 1, l.end_trimmed - 1), pad0, pad1)
            ELSE ItemError(line)
       ELSE IF trimmed[1] = ";"
       THEN ItemComment(Sliced(l.start_trimmed + 1, l.end_trimmed), pad0, pad1)
       ELSE ItemError(line)

\* the item of one scanned line (the match in Parser::next)
ParseItem(src, sl, l) ==
    LET trimmed == Slice(src, l.start_trimmed, l.end_trimmed)
        line == Sliced(sl, l.start_next)
        pad0 == Sliced(sl, l.start_trimmed)
        pad1 == Sliced(l.end_trimmed, l.start_next)
    IN IF trimmed = <<>> THEN ItemBlank(line)
       ELSE IF trimmed[1] = "["
       THEN IF trimmed[Len(trimmed)] = "]"
            THEN ItemSection(Sliced(l.start_trimmed + 1, l.end_trimmed - 1), pad0, pad1)
            ELSE ItemError(line)
       ELSE IF trimmed[1] = ";"
       THEN ItemComment(Sliced(l.start_trimmed + 1, l.end_trimmed), pad0, pad1)
       ELSE IF l.eq # -1
       THEN LET end_key == l.start_trimmed
                           + trimmed_range_end(Slice(src, l.start_trimmed, l.eq))
                start_untrimmed == l.eq + 1
                start_value == start_untrimmed
                    + trimmed_range_start(Slice(src, start_untrimmed, l.end_trimmed))
            IN ItemProperty(Sliced(l.start_trimmed, end_key),
                            Sliced(start_value, l.end_trimmed),
                            pad0, Sliced(end_key, l.eq),
                            Sliced(start_untrimmed, start_value), pad1)
       ELSE ItemError(line)

\* Parser::next: None at the end of the text, else the item and the new start_line
ParserNext(src, sl) ==
    LET nl == next_line(Slice(src, sl, Len(src))) IN
    IF ~nl.some THEN None
    ELSE LET l == LineOffset(nl.v, sl)
         IN Some([item |-> ParseItem(src, sl, l), start_line |-> l.start_next])

----------------------------------------------------------------------------
(* section/concrete_section.rs: a section is the sequence of its items *)

\* ConcreteSection::new
SectionNew(header) == <<header>>

\* ConcreteSection::push_item
push_item(items, item) == Append(items, item)

\* whether key() / set_key() would panic on these items
KeyPanics(items) == items = <<>> \/ items[1].kind # "Section"

\* ConcreteSection::key
SectionKey(items, src) == SpanOf(items[1].key, src)

\* ConcreteSection::set_key
SectionSetKey(items, to_key) == [items EXCEPT ![1].key = Owned(to_key)]

IsMatch(item, key, src) ==
    item.kind = "Property" /\ eq_ignore_ascii_case(SpanOf(item.key, src), key)

\* find_prop scanning from the front: the first match
find_prop_forward(items, key, src) ==
    IF \E i \in 1..Len(items) : IsMatch(items[i], key, src)
    THEN CHOOSE i \in 1..Len(items) :
            /\ IsMatch(items[i], key, src)
            /\ \A j \in 1..(i-1) : ~IsMatch(items[j], key, src)
    ELSE 0

\* ConcreteSection::find_prop: position (1-based) of the found item, 0 for None
find_prop(items, key, src) ==
    IF \E i \in 1..Len(items) : IsMatch(items[i], key, src)
    THEN CHOOSE i \in 1..Len(items) :
            /\ IsMatch(items[i], key, src)
            /\ \A j \in (i+1)..Len(items) : ~IsMatch(items[j], key, src)
    ELSE 0

\* find_prop_mut scanning from the front: the first match
find_prop_mut_forward(items, key, src) ==
    IF \E i \in 1..Len(items) : IsMatch(items[i], key, src)
    THEN CHOOSE i \in 1..Len(items) :
            /\ IsMatch(items[i], key, src)
            /\ \A j \in 1..(i-1) : ~IsMatch(items[j], key, src)
    ELSE 0

\* ConcreteSection::find_prop_mut
find_prop_mut(items, key, src) ==
    IF \E i \in 1..Len(items) : IsMatch(items[i], key, src)
    THEN CHOOSE i \in 1..Len(items) :
            /\ IsMatch(items[i], key, src)
            /\ \A j \in (i+1)..Len(items) : ~IsMatch(items[j], key, src)
    ELSE 0

\* ConcreteSection::has
SectionHas(items, key, src) == find_prop(items, key, src) # 0

\* ConcreteSection::get
SectionGet(items, key, src) ==
    LET i == find_prop(items, key, src) IN
    IF i = 0 THEN None ELSE Some(SpanOf(items[i].value, src))

\* set that never looks for an existing property
SectionSet_always_append(items, key, value, src) ==
    Append(items, ItemProperty(Owned(key), Owned(value),
                    Owned(<<>>), Owned(<<>>), Owned(<<>>), Owned(<<"\n">>)))

\* ConcreteSection::set
SectionSet(items, key, value, src) ==
    LET i == find_prop_mut(items, key, src) IN
    IF i # 0 THEN [items EXCEPT ![i].value = Owned(value)]
    ELSE Append(items, ItemProperty(Owned(key), Owned(value),
                    Owned(<<>>), Owned(<<>>), Owned(<<>>), Owned(<<"\n">>)))

\* replace that also installs the caller's spelling of the key
SectionReplace_rekey(items, key, value, src) ==
    LET i == find_prop_mut(items, key, src) IN
    IF i # 0 THEN [items |-> [items EXCEPT ![i].value = Owned(value), ![i].key = Owned(key)],
                   consumed |-> TRUE]
    ELSE [items |-> items, consumed |-> FALSE]

\* ConcreteSection::replace: the new items and whether the value was consumed
SectionReplace(items, key, value, src) ==
    LET i == find_prop_mut(items, key, src) IN
    IF i # 0 THEN [items |-> [items EXCEPT ![i].value = Owned(value)], consumed |-> TRUE]
    ELSE [items |-> items, consumed |-> FALSE]

\* the closure keeping nothing but the matching properties
RemoveKeeps_props_only(item, key, src) ==
    item.kind = "Property" /\ eq_ignore_ascii_case(SpanOf(item.key, src), key)

\* the closure given to filter() in ConcreteSection::remove: TRUE keeps the item
RemoveKeeps(item, key, src) ==
    IF item.kind = "Property"
    THEN eq_ignore_ascii_case(SpanOf(item.key, src), key)
    ELSE TRUE

RECURSIVE Filter(_, _, _)
Filter(items, key, src) ==
    IF items = <<>> THEN <<>>
    ELSE IF RemoveKeeps(Head(items), key, src)
         THEN <<Head(items)>> \o Filter(Tail(items), key, src)
         ELSE Filter(Tail(items), key, src)

\* ConcreteSection::remove
SectionRemove(items, key, src) == Filter(items, key, src)

\* ConcreteSection::rename
SectionRename(items, from_key, to_key, src) ==
    LET kept == SectionRemove(items, to_key, src) IN
    [i \in 1..Len(kept) |->
        IF IsMatch(kept[i], from_key, src)
        THEN [kept[i] EXCEPT !.key = Owned(to_key)]
        ELSE kept[i]]

\* impl Display for ConcreteSection
SectionToString(items, src) ==
    Concat([i \in 1..Len(items) |-> ItemToString(items[i], src)])

RECURSIVE PropsOf(_, _)
\* ConcreteSectionIter: the (key, value) pairs of the Property items, in order
PropsOf(items, src) ==
    IF items = <<>> THEN <<>>
    ELSE IF Head(items).kind = "Property"
         THEN <<<<SpanOf(Head(items).key, src), SpanOf(Head(items).value, src)>>>>
              \o PropsOf(Tail(items), src)
         ELSE PropsOf(Tail(items), src)

----------------------------------------------------------------------------
(* ini.rs: the section index is a function from lowercased key to positions *)

MapInsert(m, k, v) == [x \in (DOMAIN m) \cup {k} |-> IF x = k THEN v ELSE m[x]]
MapRemove(m, k) == [x \in (DOMAIN m) \ {k} |-> m[x]]
EmptyMap == [x \in {} |-> <<>>]

RECURSIVE BuildIndexFrom(_, _, _, _)
BuildIndexFrom(secs, src, i, index) ==
    IF i >= Len(secs) THEN index
    ELSE LET lower_key == to_ascii_lowercase(SectionKey(secs[i + 1], src)) IN
         BuildIndexFrom(secs, src, i + 1,
            IF lower_key \in DOMAIN index
            THEN [index EXCEPT ![lower_key] = Append(@, i)]
            ELSE MapInsert(index, lower_key, <<i>>))

\* Ini::build_section_index
build_section_index(secs, src) == BuildIndexFrom(secs, src, 0, EmptyMap)

RECURSIVE BorrowFrom_split_short(_, _, _, _)
\* the loop splitting at borrow_at, so that the borrowed element falls outside
\* the part it is taken from
BorrowFrom_split_short(rest_len, rest_starts_at, indices, refs) ==
    IF indices = <<>> THEN [panic |-> FALSE, refs |-> refs]
    ELSE LET i == Head(indices)
             borrow_at == i - rest_starts_at
             split_at == borrow_at
         IN IF borrow_at < 0 \/ split_at > rest_len \/ borrow_at >= split_at
            THEN [panic |-> TRUE, refs |-> refs]
            ELSE BorrowFrom_split_short(rest_len - split_at, rest_starts_at + split_at,
                            Tail(indices), Append(refs, rest_starts_at + borrow_at))

RECURSIVE BorrowFrom(_, _, _, _)
\* the loop of borrow_indices_mut: rest_len is rest.len(); rest begins at
\* position rest_starts_at of the whole slice
BorrowFrom(rest_len, rest_starts_at, indices, refs) ==
    IF indices = <<>> THEN [panic |-> FALSE, refs |-> refs]
    ELSE LET i == Head(indices)
             borrow_at == i - rest_starts_at
             split_at == borrow_at + 1
         IN IF borrow_at < 0 \/ split_at > rest_len
            THEN [panic |-> TRUE, refs |-> refs]
            ELSE BorrowFrom(rest_len - split_at, rest_starts_at + split_at,
                            Tail(indices), Append(refs, rest_starts_at + borrow_at))

\* borrow_indices_mut: the positions the returned references point at
borrow_indices_mut(len, indices) == BorrowFrom(len, 0, indices, <<>>)

\* Ini::v_section_mut
v_section_mut(secs, indices) == borrow_indices_mut(Len(secs), indices)

\* has_section looking the key up as given, not lowercased
has_section_exact(index, key) == key \in DOMAIN index

\* Ini::has_section
has_section(index, key) == to_ascii_lowercase(key) \in DOMAIN index

----------------------------------------------------------------------------
(* section/virtual_section.rs: a view is the sequence of positions it borrows *)

RECURSIVE FindMapRev(_, _, _, _, _)
\* iter().rev().find_map(|i| sections[i].get(key)) over members 1..j
FindMapRev(secs, members, j, key, src) ==
    IF j = 0 THEN None
    ELSE LET r == SectionGet(secs[members[j] + 1], key, src) IN
         IF r.some THEN r ELSE FindMapRev(secs, members, j - 1, key, src)

\* VirtualSection::has
VSectionHas(secs, members, key, src) ==
    \E j \in 1..Len(members) : SectionHas(secs[members[j] + 1], key, src)

RECURSIVE FindMapFwd(_, _, _, _, _)
\* iter().find_map(|i| sections[i].get(key)) over members j..Len(members)
FindMapFwd(secs, members, j, key, src) ==
    IF j > Len(members) THEN None
    ELSE LET r == SectionGet(secs[members[j] + 1], key, src) IN
         IF r.some THEN r ELSE FindMapFwd(secs, members, j + 1, key, src)

\* get asking the members first to last
VSectionGet_forward(secs, members, key, src) == FindMapFwd(secs, members, 1, key, src)

\* VirtualSection::get
VSectionGet(secs, members, key, src) ==
    FindMapRev(secs, members, Len(members), key, src)

RECURSIVE VSetLoop(_, _, _, _, _, _)
\* the loop of VirtualSectionMut::set over members j down to 2, then members[1]
VSetLoop(secs, members, j, key, value, src) ==
    IF j <= 1
    THEN [secs EXCEPT ![members[1] + 1] = SectionSet(@, key, value, src)]
    ELSE LET r == SectionReplace(secs[members[j] + 1], key, value, src) IN
         IF r.consumed THEN [secs EXCEPT ![members[j] + 1] = r.items]
         ELSE VSetLoop(secs, members, j - 1, key, value, src)

\* set that always writes to the first member
VSectionSet_first_only(secs, members, key, value, src) ==
    [secs EXCEPT ![members[1] + 1] = SectionSet(@, key, value, src)]

\* VirtualSectionMut::set
VSectionSet(secs, members, key, value, src) ==
    VSetLoop(secs, members, Len(members), key, value, src)

\* remove run on every section of the document, not on the members alone
VSectionRemove_everywhere(secs, members, key, src) ==
    [p \in 1..Len(secs) |-> SectionRemove(secs[p], key, src)]

\* VirtualSectionMut::remove
VSectionRemove(secs, members, key, src) ==
    [p \in 1..Len(secs) |->
        IF \E j \in 1..Len(members) : members[j] + 1 = p
        THEN SectionRemove(secs[p], key, src) ELSE secs[p]]

\* VirtualSectionMut::rename
VSectionRename(secs, members, from_key, to_key, src) ==
    [p \in 1..Len(secs) |->
        IF \E j \in 1..Len(members) : members[j] + 1 = p
        THEN SectionRename(secs[p], from_key, to_key, src) ELSE secs[p]]

\* VirtualSectionMut::set_key
VSectionSetKey(secs, members, to_key) ==
    [p \in 1..Len(secs) |->
        IF \E j \in 1..Len(members) : members[j] + 1 = p
        THEN SectionSetKey(secs[p], to_key) ELSE secs[p]]

\* whether set_key panics on some member
VSetKeyPanics(secs, members) ==
    \E j \in 1..Len(members) : KeyPanics(secs[members[j] + 1])

----------------------------------------------------------------------------
(* ini.rs: the public calls, as functions of the document *)

Doc(secs, index, panic) == [sections |-> secs, section_index |-> index, panic |-> panic]

\* Ini::has_in
has_in(secs, index, section_key, prop_key, src) ==
    LET lk == to_ascii_lowercase(section_key) IN
    IF lk \in DOMAIN index THEN VSectionHas(secs, index[lk], prop_key, src) ELSE FALSE

\* Ini::get_in
get_in(secs, index, section_key, prop_key, src) ==
    LET lower_section_key == to_ascii_lowercase(section_key) IN
    IF lower_section_key \in DOMAIN index
    THEN FindMapRev(secs, index[lower_section_key],
                    Len(index[lower_section_key]), prop_key, src)
    ELSE None

\* Ini::section(key).get(prop_key)
section_get(secs, index, section_key, prop_key, src) ==
    LET lk == to_ascii_lowercase(section_key) IN
    IF lk \in DOMAIN index THEN VSectionGet(secs, index[lk], prop_key, src) ELSE None

RECURSIVE SectionGroupIterNext_first_member(_, _, _, _, _)
\* the iterator giving up when its first member is exhausted
SectionGroupIterNext_first_member(secs, members, i, iter, src) ==
    IF iter # <<>>
    THEN <<Head(iter)>> \o SectionGroupIterNext_first_member(secs, members, i, Tail(iter), src)
    ELSE <<>>

RECURSIVE SectionGroupIterNext(_, _, _, _, _)
\* SectionGroupIter::next called until it returns None: iter is what the
\* current member's iterator has yet to yield, i the member it belongs to
SectionGroupIterNext(secs, members, i, iter, src) ==
    IF iter # <<>>
    THEN <<Head(iter)>> \o SectionGroupIterNext(secs, members, i, Tail(iter), src)
    ELSE IF i + 1 < Len(members)
         THEN SectionGroupIterNext(secs, members, i + 1,
                                   PropsOf(secs[members[i + 2] + 1], src), src)
         ELSE <<>>

\* SectionGroupIter::new and the pairs the iterator yields
SectionGroupIter(secs, members, src) ==
    IF members = <<>> THEN <<>>
    ELSE SectionGroupIterNext(secs, members, 0, PropsOf(secs[members[1] + 1], src), src)

\* borrow_indices: the positions the returned references point at
borrow_indices(indices) == indices

\* Ini::section(key) and VirtualSection::iter on it, collected
section_iter(secs, index, key, src) ==
    LET lk == to_ascii_lowercase(key) IN
    IF lk \in DOMAIN index
    THEN Some(SectionGroupIter(secs, borrow_indices(index[lk]), src))
    ELSE None

\* append_section filing the new section under the key as spelled
append_section_unlowered(secs, index, key) ==
    IF key \in DOMAIN index
    THEN LET b == v_section_mut(secs, index[key]) IN
         [sections |-> secs, section_index |-> index, panic |-> b.panic, view |-> b.refs]
    ELSE LET header == ItemSection(Owned(key), Owned(<<>>), Owned(<<"\n">>))
             pushed == Append(secs, SectionNew(header))
             indices == <<Len(pushed) - 1>>
             b == v_section_mut(pushed, indices)
         IN [sections |-> pushed,
             section_index |-> MapInsert(index, key, indices),
             panic |-> b.panic, view |-> b.refs]

\* Ini::append_section: the document and the view it returns
append_section(secs, index, key) ==
    LET lower_key == to_ascii_lowercase(key) IN
    IF lower_key \in DOMAIN index
    THEN LET b == v_section_mut(secs, index[lower_key]) IN
         [sections |-> secs, section_index |-> index, panic |-> b.panic, view |-> b.refs]
    ELSE LET header == ItemSection(Owned(key), Owned(<<>>), Owned(<<"\n">>))
             pushed == Append(secs, SectionNew(header))
             indices == <<Len(pushed) - 1>>
             b == v_section_mut(pushed, indices)
         IN [sections |-> pushed,
             section_index |-> MapInsert(index, lower_key, indices),
             panic |-> b.panic, view |-> b.refs]

RECURSIVE FilterSections_exact(_, _, _)
\* the filter of remove_section comparing the header with the key as spelled
FilterSections_exact(secs, key, src) ==
    IF secs = <<>> THEN <<>>
    ELSE IF SectionKey(Head(secs), src) # key
         THEN <<Head(secs)>> \o FilterSections_exact(Tail(secs), key, src)
         ELSE FilterSections_exact(Tail(secs), key, src)

RECURSIVE FilterSections(_, _, _)
FilterSections(secs, key, src) ==
    IF secs = <<>> THEN <<>>
    ELSE IF ~eq_ignore_ascii_case(SectionKey(Head(secs), src), key)
         THEN <<Head(secs)>> \o FilterSections(Tail(secs), key, src)
         ELSE FilterSections(Tail(secs), key, src)

\* Ini::remove_section
remove_section(secs, index, key, src) ==
    IF has_section(index, key)
    THEN LET kept == FilterSections(secs, key, src) IN
         Doc(kept, build_section_index(kept, src),
             \E i \in 1..Len(secs) : KeyPanics(secs[i]))
    ELSE Doc(secs, index, FALSE)

\* rename_section that leaves an existing to group in place
rename_section_keep_to(secs, index, from_key, to_key, src) ==
    LET lower_to_key == to_ascii_lowercase(to_key)
        lower_from_key == to_ascii_lowercase(from_key)
    IN IF lower_from_key \in DOMAIN index
       THEN LET indices == index[lower_from_key]
                b == v_section_mut(secs, indices)
            IN IF b.panic \/ VSetKeyPanics(secs, b.refs)
               THEN Doc(secs, index, TRUE)
               ELSE Doc(VSectionSetKey(secs, b.refs, to_key),
                        MapInsert(MapRemove(index, lower_from_key),
                                  lower_to_key, indices),
                        FALSE)
       ELSE Doc(secs, index, FALSE)

\* rename_section reading the from entry of the index without taking it out
rename_section_keep_from_entry(secs, index, from_key, to_key, src) ==
    LET lower_to_key == to_ascii_lowercase(to_key)
        d == remove_section(secs, index, lower_to_key, src)
        lower_from_key == to_ascii_lowercase(from_key)
    IN IF d.panic THEN d
       ELSE IF lower_from_key \in DOMAIN d.section_index
       THEN LET indices == d.section_index[lower_from_key]
                b == v_section_mut(d.sections, indices)
            IN IF b.panic \/ VSetKeyPanics(d.sections, b.refs)
               THEN Doc(d.sections, d.section_index, TRUE)
               ELSE Doc(VSectionSetKey(d.sections, b.refs, to_key),
                        MapInsert(d.section_index, lower_to_key, indices),
                        FALSE)
       ELSE d

\* Ini::rename_section
rename_section(secs, index, from_key, to_key, src) ==
    LET lower_to_key == to_ascii_lowercase(to_key)
        d == remove_section(secs, index, lower_to_key, src)
        lower_from_key == to_ascii_lowercase(from_key)
    IN IF d.panic THEN d
       ELSE IF lower_from_key \in DOMAIN d.section_index
       THEN LET indices == d.section_index[lower_from_key]
                b == v_section_mut(d.sections, indices)
            IN IF b.panic \/ VSetKeyPanics(d.sections, b.refs)
               THEN Doc(d.sections, d.section_index, TRUE)
               ELSE Doc(VSectionSetKey(d.sections, b.refs, to_key),
                        MapInsert(MapRemove(d.section_index, lower_from_key),
                                  lower_to_key, indices),
                        FALSE)
       ELSE d

\* set_in written like remove_in, over section_mut: a missing section is left alone
set_in_existing_only(secs, index, section_key, prop_key, value, src) ==
    LET lk == to_ascii_lowercase(section_key) IN
    IF lk \notin DOMAIN index THEN Doc(secs, index, FALSE)
    ELSE LET b == v_section_mut(secs, index[lk]) IN
         IF b.panic \/ b.refs = <<>> THEN Doc(secs, index, TRUE)
         ELSE Doc(VSectionSet(secs, b.refs, prop_key, value, src), index, FALSE)

\* Ini::set_in
set_in(secs, index, section_key, prop_key, value, src) ==
    LET a == append_section(secs, index, section_key) IN
    IF a.panic \/ a.view = <<>> THEN Doc(a.sections, a.section_index, TRUE)
    ELSE Doc(VSectionSet(a.sections, a.view, prop_key, value, src),
             a.section_index, FALSE)

\* Ini::section_mut
section_mut(secs, index, key) ==
    LET lk == to_ascii_lowercase(key) IN
    IF lk \in DOMAIN index
    THEN Some(v_section_mut(secs, index[lk]))
    ELSE None

\* Ini::remove_in
remove_in(secs, index, section_key, prop_key, src) ==
    LET m == section_mut(secs, index, section_key) IN
    IF ~m.some THEN Doc(secs, index, FALSE)
    ELSE IF m.v.panic THEN Doc(secs, index, TRUE)
    ELSE Doc(VSectionRemove(secs, m.v.refs, prop_key, src), index, FALSE)

\* Ini::rename_in
rename_in(secs, index, section_key, from_key, to_key, src) ==
    LET m == section_mut(secs, index, section_key) IN
    IF ~m.some THEN Doc(secs, index, FALSE)
    ELSE IF m.v.panic THEN Doc(secs, index, TRUE)
    ELSE Doc(VSectionRename(secs, m.v.refs, from_key, to_key, src), index, FALSE)

\* Display for Ini that leaves the global section out
to_string_sections_only(glob, secs, src) ==
    Concat([i \in 1..Len(secs) |-> SectionToString(secs[i], src)])

\* Display for Ini writing the global section after the sections
to_string_global_last(glob, secs, src) ==
    Concat([i \in 1..Len(secs) |-> SectionToString(secs[i], src)])
    \o SectionToString(glob, src)

\* impl Display for Ini
to_string(glob, secs, src) ==
    SectionToString(glob, src)
    \o Concat([i \in 1..Len(secs) |-> SectionToString(secs[i], src)])

RECURSIVE IniNewLoop(_, _, _, _)
\* the for loop of Ini::new
IniNewLoop(src, sl, glob, secs) ==
    LET n == ParserNext(src, sl) IN
    IF ~n.some THEN [global_section |-> glob, sections |-> secs]
    ELSE IF n.v.item.kind = "Section"
         THEN IniNewLoop(src, n.v.start_line, glob, Append(secs, SectionNew(n.v.item)))
         ELSE IF secs # <<>>
              THEN IniNewLoop(src, n.v.start_line, glob,
                     [secs EXCEPT ![Len(secs)] = push_item(@, n.v.item)])
              ELSE IniNewLoop(src, n.v.start_line, push_item(glob, n.v.item), secs)

\* Ini::new
IniNew(src) ==
    LET p == IniNewLoop(src, 0, <<>>, <<>>) IN
    [global_section |-> p.global_section, sections |-> p.sections,
     section_index |-> build_section_index(p.sections, src)]

----------------------------------------------------------------------------
(* Inputs *)

RECURSIVE SeqsUpTo(_, _)
\* every sequence over S of length at most n
SeqsUpTo(S, n) ==
    IF n = 0 THEN {<<>>}
    ELSE LET shorter == SeqsUpTo(S, n - 1) IN
         shorter \cup {Append(q, x) : q \in shorter, x \in S}

\* the bytes that decide how a line is scanned and classified, and one other byte
Alphabet == {" ", "\n", "\r", "=", "[", "]", ";", "k"}

\* raw source texts given to the parser
\* the bytes of lines: the alphabet and the tab, which is not trimmed
LineAlphabet == Alphabet \cup {"\t"}
LineTexts == SeqsUpTo(LineAlphabet, MaxLineLen)

SourceTexts == SeqsUpTo(Alphabet, MaxSrcLen)

\* pieces of world-file text: a header with a property; a padded duplicate
\* header in the other case with two properties, ended by CRLF and by a lone
\* CR; a duplicate key followed by a comment, an error line and a blank line;
\* another section whose last line has no terminator; an empty section of
\* that name in the other case, which can stand between two others; a section
\* with an empty key holding an empty comment and a property with empty key
\* and value
Blocks == {
    <<"[", "]", "\n", ";", "\n", "=", "\n">>,
    <<"[", "t", "]", "\n">>,
    <<"[", "S", "]", "\n", "k", "=", "1", "\n">>,
    <<" ", "[", "s", "]", " ", "\r", "\n",
      " ", "K", " ", "=", " ", "0", " ", "\r", "\n", "j", "=", "3", "\r">>,
    <<"k", "=", "5", "\n", ";", "c", "\n", "e", "\n", "\n">>,
    <<"[", "T", "]", "\n", "k", "=", "4">> }

\* documents to be edited
Documents == {Concat(bs) : bs \in SeqsUpTo(Blocks, MaxBlocks)}

\* arguments of the calls
SectionKeys == {<<"s">>, <<"T">>}
ToSectionKeys == {<<"S">>, <<"T">>}
PropKeys == {<<"K">>, <<"j">>}
ToPropKeys == {<<"k">>, <<"J">>}
Values == {<<"2">>, <<>>}

\* keys used to query a document
QuerySectionKeys == {<<"S">>, <<"s">>, <<"T">>, <<"t">>, <<>>}
QueryPropKeys == {<<"K">>, <<"k">>, <<"J">>, <<"j">>}

----------------------------------------------------------------------------
(* The state machine *)

NoArg == <<>>
Call(op, s, k, v) == [op |-> op, s |-> s, k |-> k, v |-> v]
Snapshot(glob, secs, index) ==
    [global_section |-> glob, sections |-> secs, section_index |-> index]

\* Ini::new on a raw text, before its loop has run
InitParse ==
    /\ source \in SourceTexts
    /\ start_line = 0
    /\ global_section = <<>>
    /\ sections = <<>>
    /\ section_index = EmptyMap
    /\ pc = "parsing"
    /\ last = Call("new", NoArg, NoArg, NoArg)
    /\ pre = Snapshot(<<>>, <<>>, EmptyMap)
    /\ nops = 0
    /\ panicked = FALSE

\* one iteration of the loop of Ini::new: Parser::next and the item's dispatch
ParserStep ==
    /\ pc = "parsing"
    /\ LET n == ParserNext(source, start_line) IN
       /\ n.some
       /\ start_line' = n.v.start_line
       /\ IF n.v.item.kind = "Section"
          THEN /\ sections' = Append(sections, SectionNew(n.v.item))
               /\ UNCHANGED global_section
          ELSE IF sections # <<>>
               THEN /\ sections' = [sections EXCEPT ![Len(sections)] = push_item(@, n.v.item)]
                    /\ UNCHANGED global_section
               ELSE /\ global_section' = push_item(global_section, n.v.item)
                    /\ UNCHANGED sections
    /\ UNCHANGED <<source, section_index, pc, last, pre, nops, panicked>>

\* the end of Ini::new: the parser is exhausted and the index is built
FinishNew ==
    /\ pc = "parsing"
    /\ ~ParserNext(source, start_line).some
    /\ section_index' = build_section_index(sections, source)
    /\ pc' = "ready"
    /\ UNCHANGED <<source, start_line, global_section, sections, last, pre, nops, panicked>>

\* Ini::new on a short text that may hold tabs, before its loop has run
InitLines ==
    /\ source \in LineTexts
    /\ start_line = 0
    /\ global_section = <<>>
    /\ sections = <<>>
    /\ section_index = EmptyMap
    /\ pc = "parsing"
    /\ last = Call("new", NoArg, NoArg, NoArg)
    /\ pre = Snapshot(<<>>, <<>>, EmptyMap)
    /\ nops = 0
    /\ panicked = FALSE

NextParse == ParserStep \/ FinishNew

SpecLines == InitLines /\ [][NextParse]_vars

SpecParse == InitParse /\ [][NextParse]_vars

\* a constructed document
Init ==
    /\ source \in Documents
    /\ start_line = Len(source)
    /\ \E d \in {IniNew(source)} :
       /\ global_section = d.global_section
       /\ sections = d.sections
       /\ section_index = d.section_index
       /\ pre = Snapshot(d.global_section, d.sections, d.section_index)
    /\ pc = "ready"
    /\ last = Call("new", NoArg, NoArg, NoArg)
    /\ nops = 0
    /\ panicked = FALSE

CanCall == pc = "ready" /\ nops < MaxOps /\ ~panicked

\* the effect of a call that returned document d
Called(call, d) ==
    /\ sections' = d.sections
    /\ section_index' = d.section_index
    /\ panicked' = d.panic
    /\ last' = call
    /\ pre' = Snapshot(global_section, sections, section_index)
    /\ nops' = nops + 1
    /\ UNCHANGED <<source, start_line, global_section, pc>>

AppendSection ==
    /\ CanCall
    /\ \E key \in SectionKeys :
         Called(Call("append_section", key, NoArg, NoArg),
                append_section(sections, section_index, key))

RemoveSection ==
    /\ CanCall
    /\ \E key \in SectionKeys :
         Called(Call("remove_section", key, NoArg, NoArg),
                remove_section(sections, section_index, key, source))

RenameSection ==
    /\ CanCall
    /\ \E from_key \in SectionKeys, to_key \in ToSectionKeys :
         Called(Call("rename_section", from_key, NoArg, to_key),
                rename_section(sections, section_index, from_key, to_key, source))

SetIn ==
    /\ CanCall
    /\ \E section_key \in SectionKeys, prop_key \in PropKeys, value \in Values :
         Called(Call("set_in", section_key, prop_key, value),
                set_in(sections, section_index, section_key, prop_key, value, source))

RemoveIn ==
    /\ CanCall
    /\ \E section_key \in SectionKeys, prop_key \in PropKeys :
         Called(Call("remove_in", section_key, prop_key, NoArg),
                remove_in(sections, section_index, section_key, prop_key, source))

RenameIn ==
    /\ CanCall
    /\ \E section_key \in SectionKeys, from_key \in PropKeys, to_key \in ToPropKeys :
         Called(Call("rename_in", section_key, from_key, to_key),
                rename_in(sections, section_index, section_key, from_key, to_key, source))

Next ==
    \/ AppendSection
    \/ RemoveSection
    \/ RenameSection
    \/ SetIn
    \/ RemoveIn
    \/ RenameIn

Spec == Init /\ [][Next]_vars

----------------------------------------------------------------------------
(* What the claims speak about *)

Ready == pc = "ready" /\ ~panicked

\* positions (1-based) of the physical sections whose header is key, ignoring case
Group(secs, key, src) ==
    {p \in 1..Len(secs) : eq_ignore_ascii_case(SectionKey(secs[p], src), key)}

\* positions of the Property items of a section whose key is key, ignoring case
Matches(items, key, src) ==
    {i \in 1..Len(items) :
        /\ items[i].kind = "Property"
        /\ eq_ignore_ascii_case(SpanOf(items[i].key, src), key)}

SetMax(S) == CHOOSE x \in S : \A y \in S : y <= x
SetMin(S) == CHOOSE x \in S : \A y \in S : x <= y

\* members of the group that hold key
Holders(secs, section_key, key, src) ==
    {p \in Group(secs, section_key, src) : Matches(secs[p], key, src) # {}}

RECURSIVE Without(_, _, _)
\* items with the Property items matching key deleted
Without(items, key, src) ==
    IF items = <<>> THEN <<>>
    ELSE IF Head(items).kind = "Property"
            /\ eq_ignore_ascii_case(SpanOf(Head(items).key, src), key)
         THEN Without(Tail(items), key, src)
         ELSE <<Head(items)>> \o Without(Tail(items), key, src)

----------------------------------------------------------------------------
(* C1 *)

\* C1: an unmodified document serializes to exactly its source text, for every
\* source text
RoundTripIdentity ==
    pc = "ready" => to_string(global_section, sections, source) = source

\* a parsed text with a global item, a section and a carriage return
RoundTripWitness ==
    /\ pc = "ready"
    /\ global_section # <<>>
    /\ sections # <<>>
    /\ \E i \in 1..Len(source) : source[i] = "\r"
    /\ to_string(global_section, sections, source) = source

----------------------------------------------------------------------------
(* C2, C3 *)

\* C2: after remove_in(s, k) on an existing section s, has_in(s, k) is false
\* and no physical section of group s holds a Property whose key is k
RemoveInClearsKey ==
    (Ready /\ last.op = "remove_in" /\ has_section(pre.section_index, last.s))
    => /\ ~has_in(sections, section_index, last.s, last.k, source)
       /\ Holders(sections, last.s, last.k, source) = {}

\* C3: remove_in(s, k) deletes only the Property items whose key is k; every
\* other item stays, in order, with its content and padding
RemoveInKeepsOthers ==
    (Ready /\ last.op = "remove_in")
    => /\ Len(sections) = Len(pre.sections)
       /\ \A p \in 1..Len(pre.sections) :
            sections[p] = IF p \in Group(pre.sections, last.s, source)
                          THEN Without(pre.sections[p], last.k, source)
                          ELSE pre.sections[p]

----------------------------------------------------------------------------
(* C4, C5 *)

\* C4: immediately after set_in(s, k, v), get_in(s, k) returns v
SetInThenGetIn ==
    (Ready /\ last.op = "set_in")
    => get_in(sections, section_index, last.s, last.k, source) = Some(last.v)

\* set_in on a key held both by the first member and by a later duplicate
SetInThenGetInWitness ==
    /\ Ready /\ last.op = "set_in"
    /\ LET g == Group(pre.sections, last.s, source)
           h == Holders(pre.sections, last.s, last.k, source)
       IN /\ g # {}
          /\ SetMin(g) \in h
          /\ h \ {SetMin(g)} # {}
    /\ get_in(sections, section_index, last.s, last.k, source) = Some(last.v)

\* C5: after Ini::new(s0) and set_in(s, k, v), re-parsing to_string() gives a
\* document in which get_in(s, k) is v
EditSurvivesReload ==
    (Ready /\ last.op = "set_in" /\ nops = 1)
    => LET text == to_string(global_section, sections, source)
           d == IniNew(text)
       IN get_in(d.sections, d.section_index, last.s, last.k, text) = Some(last.v)

----------------------------------------------------------------------------
(* C6, C7 *)

\* C6: get_in(s, k) is the value of the last Property matching k in the
\* highest-position member of group s that holds a match, and none when no
\* member holds one
GetInLastOfHighest ==
    Ready =>
    \A s \in QuerySectionKeys, k \in QueryPropKeys :
        LET h == Holders(sections, s, k, source) IN
        get_in(sections, section_index, s, k, source) =
            IF h = {} THEN None
            ELSE LET items == sections[SetMax(h)]
                 IN Some(SpanOf(items[SetMax(Matches(items, k, source))].value, source))

\* a group with two holders of a key with different values, one of them
\* holding the key twice
GetInLastOfHighestWitness ==
    /\ Ready
    /\ \E s \in QuerySectionKeys, k \in QueryPropKeys :
         LET h == Holders(sections, s, k, source) IN
         /\ Cardinality(h) >= 2
         /\ \E p \in h : Cardinality(Matches(sections[p], k, source)) >= 2
         /\ get_in(sections, section_index, s, k, source).some
         /\ SectionGet(sections[SetMin(h)], k, source)
                # get_in(sections, section_index, s, k, source)

\* C7: get_in, has_in and has_section give the same answer for keys that
\* differ only in ASCII letter case.  Two keys differ only in case exactly
\* when they have the same lowercase form, so every key is compared with its
\* lowercase form.
LookupIgnoresCase ==
    Ready =>
    \A s \in QuerySectionKeys :
        LET ls == to_ascii_lowercase(s) IN
        /\ has_section(section_index, s) = has_section(section_index, ls)
        /\ \A k \in QueryPropKeys :
            LET lk == to_ascii_lowercase(k) IN
            /\ get_in(sections, section_index, s, k, source)
                 = get_in(sections, section_index, ls, lk, source)
            /\ has_in(sections, section_index, s, k, source)
                 = has_in(sections, section_index, ls, lk, source)

\* a section written [S] holding a key written k, found as ("s", "K")
LookupIgnoresCaseWitness ==
    /\ Ready
    /\ \E p \in 1..Len(sections) :
         /\ SectionKey(sections[p], source) = <<"S">>
         /\ \E i \in 1..Len(sections[p]) :
              /\ sections[p][i].kind = "Property"
              /\ SpanOf(sections[p][i].key, source) = <<"k">>
    /\ \A p \in 1..Len(sections) : SectionKey(sections[p], source) # <<"s">>
    /\ has_section(section_index, <<"s">>)
    /\ get_in(sections, section_index, <<"s">>, <<"K">>, source).some

----------------------------------------------------------------------------
(* C8, C9, C10 *)

\* items equal to old except that the value of item i now reads value
SameButValue(items, old, i, value, src) ==
    /\ Len(items) = Len(old)
    /\ \A n \in 1..Len(old) : n # i => items[n] = old[n]
    /\ items[i].kind = old[i].kind
    /\ items[i].key = old[i].key
    /\ items[i].pad = old[i].pad
    /\ SpanOf(items[i].value, src) = value

\* C8: when group s exists and no member but the first holds k, set_in(s, k, v)
\* overwrites the first member's last match, or appends one Property k=v at
\* the end of the first member; no later member changes
SetInWritesFirstMember ==
    LET g == Group(pre.sections, last.s, source)
        h == Holders(pre.sections, last.s, last.k, source)
    IN (Ready /\ last.op = "set_in" /\ g # {} /\ h \subseteq {SetMin(g)})
       => LET first == SetMin(g)
              old == pre.sections[first]
              now == sections[first]
          IN /\ Len(sections) = Len(pre.sections)
             /\ \A p \in 1..Len(sections) : p # first => sections[p] = pre.sections[p]
             /\ IF h # {}
                THEN SameButValue(now, old, SetMax(Matches(old, last.k, source)),
                                  last.v, source)
                ELSE /\ Len(now) = Len(old) + 1
                     /\ SubSeq(now, 1, Len(old)) = old
                     /\ now[Len(now)].kind = "Property"
                     /\ SpanOf(now[Len(now)].key, source) = last.k
                     /\ SpanOf(now[Len(now)].value, source) = last.v

\* a new key set on a group of several members: appended to the first
SetInWritesFirstMemberWitness ==
    /\ Ready /\ last.op = "set_in"
    /\ LET g == Group(pre.sections, last.s, source) IN
       /\ Cardinality(g) >= 2
       /\ Holders(pre.sections, last.s, last.k, source) = {}
       /\ Len(sections[SetMin(g)]) = Len(pre.sections[SetMin(g)]) + 1
       /\ \A p \in g \ {SetMin(g)} : sections[p] = pre.sections[p]

\* C9: when a member other than the first holds k, set_in(s, k, v) overwrites
\* the last match of the highest-position such member and changes nothing else
SetInOverwritesLaterMember ==
    LET g == Group(pre.sections, last.s, source)
        h == Holders(pre.sections, last.s, last.k, source)
    IN (Ready /\ last.op = "set_in" /\ g # {} /\ h \ {SetMin(g)} # {})
       => LET p == SetMax(h \ {SetMin(g)})
              old == pre.sections[p]
          IN /\ Len(sections) = Len(pre.sections)
             /\ \A q \in 1..Len(sections) : q # p => sections[q] = pre.sections[q]
             /\ SameButValue(sections[p], old, SetMax(Matches(old, last.k, source)),
                             last.v, source)
             /\ global_section = pre.global_section

\* the key is held by a middle member and not by the last member: the middle
\* member is written and nothing else
SetInOverwritesLaterMemberWitness ==
    /\ Ready /\ last.op = "set_in"
    /\ LET g == Group(pre.sections, last.s, source)
           h == Holders(pre.sections, last.s, last.k, source)
       IN /\ g # {}
          /\ h \ {SetMin(g)} # {}
          /\ SetMax(h) < SetMax(g)
          /\ sections[SetMax(h)] # pre.sections[SetMax(h)]
          /\ \A q \in g \ {SetMax(h)} : sections[q] = pre.sections[q]

\* text b is text a with one occurrence of old replaced by new
DiffersOnlyIn(a, b, old, new) ==
    \E n \in 0..Len(a) :
        /\ n + Len(old) <= Len(a)
        /\ Len(b) = Len(a) - Len(old) + Len(new)
        /\ SubSeq(a, 1, n) = SubSeq(b, 1, n)
        /\ SubSeq(a, n + 1, n + Len(old)) = old
        /\ SubSeq(b, n + 1, n + Len(new)) = new
        /\ SubSeq(a, n + Len(old) + 1, Len(a)) = SubSeq(b, n + Len(new) + 1, Len(b))

\* C10: setting a key the group already holds changes only the value of one
\* Property: its key text, its padding, every other item and the item count
\* stay, and to_string() differs only in that value's text
SetInExistingChangesOnlyValue ==
    (Ready /\ last.op = "set_in"
        /\ Holders(pre.sections, last.s, last.k, source) # {})
    => /\ global_section = pre.global_section
       /\ Len(sections) = Len(pre.sections)
       /\ \E p \in 1..Len(sections) : \E i \in 1..Len(pre.sections[p]) :
            /\ \A q \in 1..Len(sections) : q # p => sections[q] = pre.sections[q]
            /\ pre.sections[p][i].kind = "Property"
            /\ SameButValue(sections[p], pre.sections[p], i, last.v, source)
            /\ DiffersOnlyIn(to_string(pre.global_section, pre.sections, source),
                             to_string(global_section, sections, source),
                             SpanOf(pre.sections[p][i].value, source), last.v)

\* a padded property spelled in the other case is overwritten with a new value
SetInExistingChangesOnlyValueWitness ==
    /\ Ready /\ last.op = "set_in"
    /\ Len(sections) = Len(pre.sections)
    /\ \E p \in 1..Len(sections) : \E i \in 1..Len(pre.sections[p]) :
         /\ Len(sections[p]) = Len(pre.sections[p])
         /\ pre.sections[p][i].kind = "Property"
         /\ sections[p][i].value # pre.sections[p][i].value
         /\ SpanOf(pre.sections[p][i].value, source) # last.v
         /\ SpanOf(pre.sections[p][i].key, source) # last.k
         /\ SpanOf(pre.sections[p][i].pad[2], source) # <<>>
    /\ to_string(global_section, sections, source)
         # to_string(pre.global_section, pre.sections, source)

----------------------------------------------------------------------------
(* C11 *)

\* items are old with the matches of to_key deleted and every match of
\* from_key relabelled to_key, values and padding kept
Relabelled(items, old, from_key, to_key, src) ==
    LET kept == Without(old, to_key, src) IN
    /\ Len(items) = Len(kept)
    /\ \A i \in 1..Len(kept) :
        IF kept[i].kind = "Property"
           /\ eq_ignore_ascii_case(SpanOf(kept[i].key, src), from_key)
        THEN /\ items[i].kind = "Property"
             /\ SpanOf(items[i].key, src) = to_key
             /\ items[i].value = kept[i].value
             /\ items[i].pad = kept[i].pad
        ELSE items[i] = kept[i]

\* C11: after rename_in(s, from, to) with from and to different ignoring case
\* and from present in group s: has_in(s, from) is false, every Property that
\* matched from is kept with key text to, every Property that matched to is
\* gone, and get_in(s, to) is what get_in(s, from) was, in every member
RenameInRelabels ==
    (Ready /\ last.op = "rename_in"
        /\ ~eq_ignore_ascii_case(last.k, last.v)
        /\ Holders(pre.sections, last.s, last.k, source) # {})
    => /\ ~has_in(sections, section_index, last.s, last.k, source)
       /\ get_in(sections, section_index, last.s, last.v, source)
            = get_in(pre.sections, pre.section_index, last.s, last.k, source)
       /\ Len(sections) = Len(pre.sections)
       /\ \A p \in Group(pre.sections, last.s, source) :
            Relabelled(sections[p], pre.sections[p], last.k, last.v, source)

----------------------------------------------------------------------------
(* C12, C13 *)

RECURSIVE AscSeq(_)
\* the members of a set of numbers in ascending order
AscSeq(S) == IF S = {} THEN <<>> ELSE <<SetMin(S)>> \o AscSeq(S \ {SetMin(S)})

RECURSIVE SectionsOutside(_, _, _)
\* the sections whose header is not key ignoring case, in order
SectionsOutside(secs, key, src) ==
    IF secs = <<>> THEN <<>>
    ELSE IF to_ascii_lowercase(SpanOf(Head(secs)[1].key, src)) = to_ascii_lowercase(key)
         THEN SectionsOutside(Tail(secs), key, src)
         ELSE <<Head(secs)>> \o SectionsOutside(Tail(secs), key, src)

\* C12: after remove_section(k), has_section(k) is false, every physical
\* section with header k is gone, all other sections and the global section
\* are unchanged and in order; on an absent key nothing changes
RemoveSectionRemovesGroup ==
    (Ready /\ last.op = "remove_section")
    => /\ ~has_section(section_index, last.s)
       /\ Group(sections, last.s, source) = {}
       /\ sections = SectionsOutside(pre.sections, last.s, source)
       /\ global_section = pre.global_section
       /\ ~has_section(pre.section_index, last.s)
            => (sections = pre.sections /\ section_index = pre.section_index)

\* a group of two members written in different cases is removed from among
\* other sections
RemoveSectionRemovesGroupWitness ==
    /\ Ready /\ last.op = "remove_section"
    /\ Cardinality(Group(pre.sections, last.s, source)) >= 2
    /\ \E p, q \in Group(pre.sections, last.s, source) :
         SectionKey(pre.sections[p], source) # SectionKey(pre.sections[q], source)
    /\ sections # <<>>
    /\ Len(sections) < Len(pre.sections)
    /\ ~has_section(section_index, last.s)

\* C13: after rename_section(from, to) with from present and to different
\* from from ignoring case: the previous to group is removed, has_section(from)
\* is false, has_section(to) is true, every section formerly in group from has
\* header text to and its other items unchanged, and group to is exactly those
\* sections in their original order
RenameSectionRelabelsGroup ==
    (Ready /\ last.op = "rename_section"
        /\ ~eq_ignore_ascii_case(last.s, last.v)
        /\ has_section(pre.section_index, last.s))
    => LET kept == SectionsOutside(pre.sections, last.v, source)
           moved == Group(kept, last.s, source)
       IN /\ ~has_section(section_index, last.s)
          /\ has_section(section_index, last.v)
          /\ global_section = pre.global_section
          /\ Len(sections) = Len(kept)
          /\ \A p \in 1..Len(kept) :
               IF p \in moved
               THEN /\ SectionKey(sections[p], source) = last.v
                    /\ sections[p][1].kind = "Section"
                    /\ sections[p][1].pad = kept[p][1].pad
                    /\ Tail(sections[p]) = Tail(kept[p])
               ELSE sections[p] = kept[p]
          /\ Group(sections, last.v, source) = moved
          /\ Group(sections, last.s, source) = {}
          /\ section_index[to_ascii_lowercase(last.v)] = AscSeq({p - 1 : p \in moved})

\* a group of two members is renamed onto an existing group, which disappears
RenameSectionRelabelsGroupWitness ==
    /\ Ready /\ last.op = "rename_section"
    /\ ~eq_ignore_ascii_case(last.s, last.v)
    /\ Cardinality(Group(pre.sections, last.s, source)) >= 2
    /\ Group(pre.sections, last.v, source) # {}
    /\ Len(sections) = Cardinality(Group(pre.sections, last.s, source))
    /\ \A p \in 1..Len(sections) : SectionKey(sections[p], source) = last.v
    /\ has_section(section_index, last.v)

----------------------------------------------------------------------------
(* C14, C15 *)

\* C14: append_section(k) adds exactly one physical section, holding only the
\* header with text k as given, at the end of the list when has_section(k) was
\* false, and nothing when it was true; has_section(k) holds afterwards, and a
\* second call changes nothing more
AppendSectionOnce ==
    (pc = "ready" /\ last.op = "append_section")
    => /\ ~panicked
       /\ has_section(section_index, last.s)
       /\ global_section = pre.global_section
       /\ IF has_section(pre.section_index, last.s)
          THEN sections = pre.sections /\ section_index = pre.section_index
          ELSE /\ Len(sections) = Len(pre.sections) + 1
               /\ SubSeq(sections, 1, Len(pre.sections)) = pre.sections
               /\ Len(sections[Len(sections)]) = 1
               /\ sections[Len(sections)][1].kind = "Section"
               /\ SectionKey(sections[Len(sections)], source) = last.s
               /\ SectionToString(sections[Len(sections)], source)
                    = <<"[">> \o last.s \o <<"]", "\n">>
               /\ section_index = MapInsert(pre.section_index,
                                    to_ascii_lowercase(last.s), <<Len(sections) - 1>>)
       /\ LET again == append_section(sections, section_index, last.s) IN
          /\ again.sections = sections
          /\ again.section_index = section_index
          /\ ~again.panic

\* a section is appended to a document that has sections but not this one
AppendSectionOnceWitness ==
    /\ Ready /\ last.op = "append_section"
    /\ pre.sections # <<>>
    /\ ~has_section(pre.section_index, last.s)
    /\ Len(sections) = Len(pre.sections) + 1
    /\ has_section(section_index, last.s)

\* C15: after set_in, remove_in or rename_in on a section key that is absent,
\* has_section of that key is true and nothing has panicked
MutationCreatesSection ==
    (pc = "ready" /\ last.op \in {"set_in", "remove_in", "rename_in"}
        /\ ~has_section(pre.section_index, last.s))
    => (has_section(section_index, last.s) /\ ~panicked)

\* C15 as the code has it: set_in on an absent section key creates the section,
\* remove_in and rename_in on an absent section key leave the document as it
\* was, without the section; none of the three panics
MutationOnAbsentSection ==
    (pc = "ready" /\ last.op \in {"set_in", "remove_in", "rename_in"}
        /\ ~has_section(pre.section_index, last.s))
    => /\ ~panicked
       /\ global_section = pre.global_section
       /\ IF last.op = "set_in"
          THEN /\ has_section(section_index, last.s)
               /\ Len(sections) = Len(pre.sections) + 1
               /\ SubSeq(sections, 1, Len(pre.sections)) = pre.sections
               /\ SectionKey(sections[Len(sections)], source) = last.s
          ELSE /\ ~has_section(section_index, last.s)
               /\ sections = pre.sections
               /\ section_index = pre.section_index

\* set_in has created a section, and a remove_in or rename_in on another
\* absent section has then left the document alone
MutationOnAbsentSectionWitness ==
    /\ Ready /\ nops = 2
    /\ last.op \in {"remove_in", "rename_in"}
    /\ ~has_section(pre.section_index, last.s)
    /\ ~has_section(section_index, last.s)
    /\ sections = pre.sections
    /\ sections # <<>>
    /\ Len(sections[Len(sections)]) = 2
    /\ sections[Len(sections)][1].key.owned
    /\ sections[Len(sections)][2].key.owned

----------------------------------------------------------------------------
(* C16, C17 *)

\* offset of the first line terminator at or after sl, or the length of src
RawLineEnd(src, sl) ==
    IF \E i \in (sl + 1)..Len(src) : src[i] \in {"\r", "\n"}
    THEN SetMin({i \in (sl + 1)..Len(src) : src[i] \in {"\r", "\n"}}) - 1
    ELSE Len(src)

\* offset just after the terminator of the line that starts at sl
RawLineNext(src, sl) ==
    LET e == RawLineEnd(src, sl) IN
    IF e = Len(src) THEN e
    ELSE IF src[e + 1] = "\r" /\ e + 2 <= Len(src) /\ src[e + 2] = "\n" THEN e + 2
    ELSE e + 1

RECURSIVE StripSpaces(_)
\* a text without its leading and trailing spaces
StripSpaces(s) ==
    IF s = <<>> THEN <<>>
    ELSE IF Head(s) = " " THEN StripSpaces(Tail(s))
    ELSE IF s[Len(s)] = " " THEN StripSpaces(SubSeq(s, 1, Len(s) - 1))
    ELSE s

\* a text whose content opens a header and does not close it
IsBrokenHeader(text) ==
    LET c == StripSpaces(text) IN
    c # <<>> /\ c[1] = "[" /\ c[Len(c)] # "]"

\* the line starting at sl opens a header and does not close it
BrokenHeaderAt(src, sl) ==
    sl < Len(src) /\ IsBrokenHeader(Slice(src, sl, RawLineEnd(src, sl)))

\* the line starting at sl is a well-formed header
HeaderAt(src, sl) ==
    /\ sl < Len(src)
    /\ LET c == StripSpaces(Slice(src, sl, RawLineEnd(src, sl))) IN
       c # <<>> /\ c[1] = "[" /\ c[Len(c)] = "]"

\* the section that is open, the global one if no header was read yet
OpenSection == IF sections = <<>> THEN global_section ELSE sections[Len(sections)]

\* the broken header lines kept in a section
BrokenHeadersIn(items, src) ==
    {i \in 1..Len(items) :
        items[i].kind = "Error" /\ IsBrokenHeader(SpanOf(items[i].key, src))}

\* reading a broken header line appends to the open section one Error item
\* spanning the raw line with its terminator, and opens no section
BrokenHeaderRead ==
    (pc = "parsing" /\ BrokenHeaderAt(source, start_line))
    => LET next == RawLineNext(source, start_line)
           item == ItemError(Sliced(start_line, next))
       IN /\ pc' = "parsing"
          /\ start_line' = next
          /\ Len(sections') = Len(sections)
          /\ OpenSection' = Append(OpenSection, item)
          /\ sections = <<>> => sections' = <<>>
          /\ sections # <<>> =>
                /\ global_section' = global_section
                /\ SubSeq(sections', 1, Len(sections) - 1)
                     = SubSeq(sections, 1, Len(sections) - 1)
          /\ ItemToString(item, source) = Slice(source, start_line, next)

\* the line read after a broken header line goes to the section that was open
\* before it, unless it is a header itself
AfterBrokenHeaderRead ==
    (/\ pc = "parsing" /\ start_line < Len(source)
     /\ OpenSection # <<>>
     /\ Len(OpenSection) \in BrokenHeadersIn(OpenSection, source)
     /\ ~HeaderAt(source, start_line))
    => /\ Len(sections') = Len(sections)
       /\ Len(OpenSection') = Len(OpenSection) + 1
       /\ SubSeq(OpenSection', 1, Len(OpenSection)) = OpenSection

\* a broken header line names no section: a key taken from it is indexed
\* only if a well-formed header carries it
BrokenHeaderNamesNoSection ==
    pc = "ready" =>
        \A c \in {global_section} \cup {sections[p] : p \in 1..Len(sections)} :
            \A i \in BrokenHeadersIn(c, source) :
                LET text == StripSpaces(Slice(source, c[i].key.start,
                                RawLineEnd(source, c[i].key.start)))
                IN \A key \in {text, Tail(text)} :
                     has_section(section_index, key)
                     => \E p \in 1..Len(sections) :
                          /\ sections[p][1].kind = "Section"
                          /\ eq_ignore_ascii_case(SpanOf(sections[p][1].key, source), key)

\* C16: a line whose trimmed content starts with '[' and does not end with ']'
\* becomes an Error item holding the whole raw line with its terminator; it
\* opens no section, the lines after it go to the section open before it (or
\* the global one), and it is rendered verbatim
BrokenHeaderIsError ==
    /\ []BrokenHeaderNamesNoSection
    /\ [][BrokenHeaderRead /\ AfterBrokenHeaderRead]_vars

\* a terminated broken header line was read into the global section and the
\* line after it joined it there
BrokenHeaderIsErrorWitness ==
    /\ pc = "ready"
    /\ sections = <<>>
    /\ \E i \in BrokenHeadersIn(global_section, source) :
         /\ i < Len(global_section)
         /\ global_section[i].key.end > RawLineEnd(source, global_section[i].key.start)
         /\ global_section[i + 1].kind = "Property"

RECURSIVE ItemCountOf(_)
ItemCountOf(secs) == IF secs = <<>> THEN 0 ELSE Len(Head(secs)) + ItemCountOf(Tail(secs))

\* the number of items read so far
ItemCount == Len(global_section) + ItemCountOf(sections)

\* Parser::next yields an item exactly while text remains, and Ini::new ends
\* with all the text read into at most as many items as it has bytes
ParserStopsAtEnd ==
    /\ start_line <= Len(source)
    /\ ItemCount <= start_line
    /\ pc = "parsing" => (ParserNext(source, start_line).some <=> start_line < Len(source))
    /\ pc = "ready" => start_line = Len(source)

\* every step of the loop of Ini::new either ends it, at the end of the text,
\* or reads one item and moves start_line forward
ParserAdvances ==
    pc = "parsing"
    => \/ pc' = "ready" /\ start_line = Len(source) /\ ItemCount' = ItemCount
       \/ /\ pc' = "parsing"
          /\ start_line' > start_line
          /\ ItemCount' = ItemCount + 1

\* C17: Parser::next returns none only when the remaining text is empty, each
\* item it returns consumes at least one byte, and Ini::new terminates after
\* at most len(source) items
ParsingTotalFinite == []ParserStopsAtEnd /\ [][ParserAdvances]_vars

\* a text of several one-byte lines was read into as many items as it has bytes
ParsingTotalFiniteWitness ==
    /\ pc = "ready"
    /\ Len(source) >= 3
    /\ ItemCount = Len(source)
    /\ start_line = Len(source)

----------------------------------------------------------------------------
(* C18, C19, C20 *)

\* 0-based positions of the sections whose lowercased header key is lower_key
PositionsOf(secs, lower_key, src) ==
    {p - 1 : p \in {q \in 1..Len(secs) :
                      to_ascii_lowercase(SpanOf(secs[q][1].key, src)) = lower_key}}

\* a list of positions that is strictly ascending and within 0..len-1
AscendingInRange(indices, len) ==
    /\ \A i \in 1..Len(indices) : indices[i] >= 0 /\ indices[i] < len
    /\ \A i \in 1..(Len(indices) - 1) : indices[i] < indices[i + 1]

\* C18: in every reachable state the section index is exactly the grouping of
\* the positions of the section list by lowercased header key: every list is
\* non-empty, strictly ascending and within range, and every position is in
\* exactly one list
IndexIsGrouping ==
    pc = "ready" =>
        /\ DOMAIN section_index
             = {to_ascii_lowercase(SpanOf(sections[p][1].key, source)) : p \in 1..Len(sections)}
        /\ \A k \in DOMAIN section_index :
             /\ section_index[k] # <<>>
             /\ AscendingInRange(section_index[k], Len(sections))
             /\ section_index[k] = AscSeq(PositionsOf(sections, k, source))
        /\ \A p \in 0..(Len(sections) - 1) :
             Cardinality({k \in DOMAIN section_index :
                            \E i \in 1..Len(section_index[k]) : section_index[k][i] = p}) = 1

\* a second call has removed sections from in front of a group of two, whose
\* positions in the index have moved with them
IndexIsGroupingWitness ==
    /\ Ready /\ nops = 2
    /\ last.op \in {"remove_section", "rename_section"}
    /\ Len(sections) < Len(pre.sections)
    /\ \E k \in DOMAIN section_index \cap DOMAIN pre.section_index :
         /\ Len(section_index[k]) >= 2
         /\ Len(pre.section_index[k]) = Len(section_index[k])
         /\ section_index[k] # pre.section_index[k]

\* C19: borrow_indices_mut, given strictly ascending in-range positions, returns
\* one reference per position in the same order, all distinct, without
\* underflow or out-of-range split; and every list the calls pass to it, which
\* are lists of the index, is such a list
BorrowIndicesMutSound ==
    pc = "ready" =>
        /\ ~panicked
        /\ \A S \in SUBSET (0..(Len(sections) - 1)) :
             LET b == borrow_indices_mut(Len(sections), AscSeq(S)) IN
             /\ ~b.panic
             /\ b.refs = AscSeq(S)
             /\ \A i, j \in 1..Len(b.refs) : i # j => b.refs[i] # b.refs[j]
        /\ \A k \in DOMAIN section_index :
             /\ AscendingInRange(section_index[k], Len(sections))
             /\ v_section_mut(sections, section_index[k])
                  = [panic |-> FALSE, refs |-> section_index[k]]

\* a call has borrowed the members of a group that are not next to each other
BorrowIndicesMutSoundWitness ==
    /\ Ready
    /\ last.op \in {"set_in", "remove_in", "rename_in", "rename_section"}
    /\ has_section(pre.section_index, last.s)
    /\ LET indices == pre.section_index[to_ascii_lowercase(last.s)] IN
       /\ Len(indices) >= 2
       /\ indices[2] > indices[1] + 1
    /\ sections # pre.sections

\* C20: every physical section but the global one holds exactly one Section
\* item, at position 0, and the global section holds none, so key() and
\* set_key() never panic; remove and rename on properties leave the header
\* as it was
HeaderIsFirstAndOnly ==
    pc = "ready" =>
        /\ ~panicked
        /\ \A i \in 1..Len(global_section) : global_section[i].kind # "Section"
        /\ \A p \in 1..Len(sections) :
             /\ sections[p] # <<>>
             /\ sections[p][1].kind = "Section"
             /\ \A i \in 2..Len(sections[p]) : sections[p][i].kind # "Section"
             /\ ~KeyPanics(sections[p])
        /\ last.op \in {"remove_in", "rename_in"} =>
             /\ Len(sections) = Len(pre.sections)
             /\ \A p \in 1..Len(sections) :
                  sections[p] # <<>> /\ sections[p][1] = pre.sections[p][1]

\* remove_in or rename_in has deleted items of a section, and its header stands
HeaderIsFirstAndOnlyWitness ==
    /\ Ready
    /\ last.op \in {"remove_in", "rename_in"}
    /\ Len(sections) = Len(pre.sections)
    /\ \E p \in 1..Len(sections) :
         /\ Len(sections[p]) < Len(pre.sections[p])
         /\ sections[p][1] = pre.sections[p][1]
         /\ sections[p][1].kind = "Section"

----------------------------------------------------------------------------
(* C21 *)

RECURSIVE AllItems(_)
\* the items of a list of sections, section after section
AllItems(secs) == IF secs = <<>> THEN <<>> ELSE Head(secs) \o AllItems(Tail(secs))

\* the text of the items of the global section and then of the sections, as listed
RenderInOrder(glob, secs, src) ==
    LET items == glob \o AllItems(secs) IN
    Concat([i \in 1..Len(items) |-> ItemToString(items[i], src)])

\* C21: set_in on an existing section, remove_in and rename_in never add,
\* remove or reorder physical sections and leave every section outside the
\* group unchanged; to_string() renders the global section and then the
\* sections in list order, never grouped by key
PropertyMutationKeepsSections ==
    /\ pc = "ready" =>
         to_string(global_section, sections, source)
           = RenderInOrder(global_section, sections, source)
    /\ (Ready /\ last.op \in {"set_in", "remove_in", "rename_in"}
          /\ has_section(pre.section_index, last.s))
       => /\ Len(sections) = Len(pre.sections)
          /\ section_index = pre.section_index
          /\ global_section = pre.global_section
          /\ \A p \in 1..Len(sections) :
               /\ sections[p] # <<>>
               /\ sections[p][1] = pre.sections[p][1]
               /\ p \notin Group(pre.sections, last.s, source)
                    => sections[p] = pre.sections[p]

\* a property call has changed a member of a group that stands between
\* sections of another group, which hold properties of their own
PropertyMutationKeepsSectionsWitness ==
    /\ Ready /\ last.op \in {"set_in", "remove_in", "rename_in"}
    /\ has_section(pre.section_index, last.s)
    /\ sections # pre.sections
    /\ Len(sections) = 3
    /\ Group(pre.sections, last.s, source) = {2}
    /\ \A p \in {1, 3} : \E i \in 1..Len(sections[p]) : sections[p][i].kind = "Property"

----------------------------------------------------------------------------
(* C22 *)

\* a is the beginning of b
IsPrefix(a, b) == Len(a) <= Len(b) /\ SubSeq(b, 1, Len(a)) = a

\* C22: the global section is not addressable by key and is never modified: a
\* section key, the empty one included, is known only through a header, a
\* property is seen under a section key only if a member of that group holds
\* it, every call leaves the items of the global section as they were, and its
\* text is the beginning of the source and of to_string()
GlobalSectionUntouched ==
    pc = "ready" =>
        /\ global_section = pre.global_section
        /\ \A i \in 1..Len(global_section) :
             /\ global_section[i].kind # "Section"
             /\ ~global_section[i].key.owned
        /\ IsPrefix(SectionToString(global_section, source), source)
        /\ IsPrefix(SectionToString(global_section, source),
                    to_string(global_section, sections, source))
        /\ ~panicked =>
             \A s \in QuerySectionKeys :
                /\ has_section(section_index, s) => Group(sections, s, source) # {}
                /\ \A k \in QueryPropKeys :
                     /\ has_in(sections, section_index, s, k, source)
                          => Holders(sections, s, k, source) # {}
                     /\ get_in(sections, section_index, s, k, source).some
                          => Holders(sections, s, k, source) # {}

\* the global section holds a property, a call has written that key into a
\* section, and another section key still does not see it
GlobalSectionUntouchedWitness ==
    /\ Ready /\ last.op = "set_in"
    /\ Matches(global_section, last.k, source) # {}
    /\ sections # pre.sections
    /\ has_in(sections, section_index, last.s, last.k, source)
    /\ ~has_in(pre.sections, pre.section_index, last.s, last.k, source)
    /\ \E s \in QuerySectionKeys :
         /\ has_section(section_index, s)
         /\ ~has_in(sections, section_index, s, last.k, source)
    /\ ~has_in(sections, section_index, <<>>, last.k, source)

----------------------------------------------------------------------------
(* C23 *)

\* the kind the line starting at sl has by the first character of its content
\* without the spaces around it
KindOfLineAt(src, sl) ==
    LET raw == Slice(src, sl, RawLineEnd(src, sl))
        c == StripSpaces(raw)
    IN IF c = <<>> THEN "Blank"
       ELSE IF c[1] = "[" THEN (IF c[Len(c)] = "]" THEN "Section" ELSE "Error")
       ELSE IF c[1] = ";" THEN "Comment"
       ELSE IF \E i \in 1..Len(raw) : raw[i] = "=" THEN "Property"
       ELSE "Error"

\* the item read last
LastItem == OpenSection[Len(OpenSection)]

\* reading a line yields one item of the kind of the line
LineRead ==
    (pc = "parsing" /\ start_line < Len(source))
    => /\ pc' = "parsing"
       /\ ItemCount' = ItemCount + 1
       /\ LastItem'.kind = KindOfLineAt(source, start_line)

\* C23: a line is classified by the first character of its content trimmed of
\* 0x20 spaces: '[' gives Section if the content ends with ']' and Error if not,
\* ';' gives Comment, any other character gives Property if the line holds '='
\* and Error if not, each whatever else the line holds; an empty or all-space
\* line gives Blank, and a line of tabs does not
LineClassification == [][LineRead]_vars

\* a line of one tab was read as an Error item and a comment holding '=' as a
\* Comment
LineClassificationWitness ==
    /\ pc = "ready"
    /\ sections = <<>>
    /\ Len(global_section) = 2
    /\ global_section[1].kind = "Error"
    /\ SpanOf(global_section[1].key, source) = <<"\t", "\n">>
    /\ global_section[2].kind = "Comment"
    /\ SpanOf(global_section[2].key, source) = <<"=">>

----------------------------------------------------------------------------
(* C24, C25 *)

AllSpaces(s) == \A i \in 1..Len(s) : s[i] = " "
NoOuterSpace(s) == s = <<>> \/ (s[1] # " " /\ s[Len(s)] # " ")

\* every Property item of the section is its raw line cut at the first '='
PropertySplitIn(items, src) ==
    \A i \in 1..Len(items) :
        items[i].kind = "Property" =>
            LET it == items[i]
                sl == it.pad[1].start
                eq == it.pad[2].end
                key == SpanOf(it.key, src)
                value == SpanOf(it.value, src)
            IN /\ \A sp \in {it.key, it.value, it.pad[1], it.pad[2], it.pad[3], it.pad[4]} :
                    ~sp.owned
               /\ it.pad[1].end = it.key.start
               /\ it.key.end = it.pad[2].start
               /\ eq < Len(src) /\ src[eq + 1] = "="
               /\ it.pad[3].start = eq + 1
               /\ it.pad[3].end = it.value.start
               /\ it.value.end = it.pad[4].start
               /\ it.pad[4].end = RawLineNext(src, sl)
               /\ \A j \in (sl + 1)..eq : src[j] # "="
               /\ AllSpaces(SpanOf(it.pad[1], src))
               /\ AllSpaces(SpanOf(it.pad[2], src))
               /\ AllSpaces(SpanOf(it.pad[3], src))
               /\ AllSpaces(Slice(src, it.pad[4].start, RawLineEnd(src, sl)))
               /\ NoOuterSpace(key)
               /\ NoOuterSpace(value)
               /\ SpanOf(it.pad[1], src) \o key \o SpanOf(it.pad[2], src) \o <<"=">>
                    \o SpanOf(it.pad[3], src) \o value \o SpanOf(it.pad[4], src)
                  = Slice(src, sl, RawLineNext(src, sl))
               /\ ItemToString(it, src) = Slice(src, sl, RawLineNext(src, sl))

\* C24: a Property line is split at the first '=' of the line; key and value
\* carry no leading or trailing 0x20, the spaces next to '=' are the paddings
\* before and after it, key or value may be empty, and leading + key +
\* before_eq + '=' + after_eq + value + trailing, the terminator being part of
\* trailing, is the raw line
PropertySplit ==
    /\ PropertySplitIn(global_section, source)
    /\ \A p \in 1..Len(sections) : PropertySplitIn(sections[p], source)

\* a line with an empty key, spaces on both sides of its first '=' and a
\* second '=' as its value was read
PropertySplitWitness ==
    /\ pc = "ready"
    /\ source = <<" ", "=", " ", "=">>
    /\ Len(global_section) = 1
    /\ global_section[1].kind = "Property"
    /\ SpanOf(global_section[1].key, source) = <<>>
    /\ SpanOf(global_section[1].value, source) = <<"=">>
    /\ SpanOf(global_section[1].pad[1], source) = <<" ">>
    /\ SpanOf(global_section[1].pad[3], source) = <<" ">>

\* C25: next_line takes '\n', a lone '\r' and '\r\n' each as one terminator,
\* '\r\n' moving the start of the next line 2 past the line end and the others
\* 1; a last line without terminator ends at the end of the text with
\* start_next = len; the terminator is never part of the trimmed content
LineTerminators ==
    (pc = "parsing" /\ start_line < Len(source))
    => LET s == Slice(source, start_line, Len(source))
           nl == next_line(s)
           end == RawLineEnd(s, 0)
       IN /\ nl.some
          /\ nl.v.end = end
          /\ nl.v.start_next =
               (IF end = Len(s) THEN Len(s)
                ELSE IF s[end + 1] = "\r" /\ end + 2 <= Len(s) /\ s[end + 2] = "\n"
                     THEN end + 2
                ELSE end + 1)
          /\ nl.v.start_trimmed <= nl.v.end_trimmed
          /\ nl.v.end_trimmed <= end
          /\ \A i \in (nl.v.start_trimmed + 1)..nl.v.end_trimmed : s[i] \notin {"\r", "\n"}
          /\ LineOffset(nl.v, start_line).start_next = RawLineNext(source, start_line)

\* a text of a CRLF line, a line ended by a lone CR and a last line without
\* terminator was read into three items
LineTerminatorsWitness ==
    /\ pc = "ready"
    /\ source = <<"\r", "\n", "\r", "k">>
    /\ sections = <<>>
    /\ Len(global_section) = 3
    /\ global_section[1].key = Sliced(0, 2)
    /\ global_section[2].key = Sliced(2, 3)
    /\ global_section[3].key = Sliced(3, 4)

----------------------------------------------------------------------------
(* C26 *)

\* the (key, value) pairs of the Property items among items, in order
PairsAmong(items, src) ==
    LET at == AscSeq({i \in 1..Len(items) : items[i].kind = "Property"}) IN
    [n \in 1..Len(at) |-> <<SpanOf(items[at[n]].key, src), SpanOf(items[at[n]].value, src)>>]

\* the members of group key, in ascending position
MembersOf(secs, key, src) ==
    LET at == AscSeq(Group(secs, key, src)) IN [n \in 1..Len(at) |-> secs[at[n]]]

\* C26: iterating a read view of group s yields exactly the (key, value) pairs
\* of the Property items of all members, member after member in ascending
\* position and in item order within a member, duplicates and shadowed
\* entries included, nothing for headers, comments, blanks and error lines,
\* and ends after the last member
GroupIterationOrder ==
    Ready =>
        \A s \in QuerySectionKeys :
            LET it == section_iter(sections, section_index, s, source) IN
            /\ it.some <=> has_section(section_index, s)
            /\ it.some =>
                 it.v = PairsAmong(AllItems(MembersOf(sections, s, source)), source)

\* after a set_in, a group of two members is iterated: the key written comes
\* from both members and other items of the members are passed over
GroupIterationOrderWitness ==
    /\ Ready /\ last.op = "set_in" /\ sections # pre.sections
    /\ LET g == Group(sections, last.s, source)
           it == section_iter(sections, section_index, last.s, source)
       IN /\ Cardinality(g) >= 2
          /\ Cardinality(Holders(sections, last.s, last.k, source)) >= 2
          /\ it.some
          /\ Len(it.v) >= 3
          /\ Len(it.v) < Len(AllItems(MembersOf(sections, last.s, source))) - Cardinality(g)

----------------------------------------------------------------------------
(* C27 *)

\* the spans an item holds
SpansOf(item) == {item.key, item.value} \cup {item.pad[i] : i \in 1..Len(item.pad)}

\* the range-backed spans held by the items of the document
SlicedSpans ==
    LET items == global_section \o AllItems(sections) IN
    {sp \in UNION {SpansOf(items[i]) : i \in 1..Len(items)} : ~sp.owned}

\* every range-backed span lies within the source
SpansInBounds ==
    \A sp \in SlicedSpans : 0 <= sp.start /\ sp.start <= sp.end /\ sp.end <= Len(source)

\* a call leaves the source as it is and adds no range-backed span
CallInstallsOwned == source' = source /\ SlicedSpans' \subseteq SlicedSpans

\* C27: every range-backed span held by an item, in every reachable state,
\* has start <= end <= len(source), the lines '[]', ';' and '=' included, so
\* that resolving it stays in bounds; calls install owned spans only and never
\* change the source
SpansStayInBounds == []SpansInBounds /\ [][CallInstallsOwned]_vars

\* a document with the lines '[]', ';' and '=' holds empty range-backed spans
\* next to the owned spans a set_in has installed
SpansStayInBoundsWitness ==
    /\ Ready /\ last.op = "set_in" /\ sections # pre.sections
    /\ \E sp \in SlicedSpans : sp.start = sp.end /\ sp.start > 0
    /\ \E p \in 1..Len(sections) :
         /\ SectionKey(sections[p], source) = <<>>
         /\ ~sections[p][1].key.owned
         /\ \E i \in 1..Len(sections[p]) :
              sections[p][i].kind = "Comment" /\ SpanOf(sections[p][i].key, source) = <<>>
         /\ \E i \in 1..Len(sections[p]) :
              /\ sections[p][i].kind = "Property"
              /\ SpanOf(sections[p][i].key, source) = <<>>
              /\ SpanOf(sections[p][i].value, source) = <<>>
    /\ \E q \in 1..Len(sections) : \E i \in 1..Len(sections[q]) :
         sections[q][i].value.owned /\ sections[q][i].kind = "Property"

----------------------------------------------------------------------------
(* C28 *)

\* C28: for every document state and keys s and k, get_in(s, k) is
\* section(s).get(k), none when the section is missing, and has_in(s, k) is
\* true exactly when get_in(s, k) is some
GetInIsSectionGet ==
    Ready =>
        \A s \in QuerySectionKeys, k \in QueryPropKeys \cup {<<>>} :
            LET g == get_in(sections, section_index, s, k, source) IN
            /\ g = section_get(sections, section_index, s, k, source)
            /\ ~has_section(section_index, s) => ~g.some
            /\ has_in(sections, section_index, s, k, source) <=> g.some

\* after a set_in two members of the group hold the key with different
\* values, and both lookups give the later one
GetInIsSectionGetWitness ==
    /\ Ready /\ last.op = "set_in" /\ sections # pre.sections
    /\ LET h == Holders(sections, last.s, last.k, source)
           g == get_in(sections, section_index, last.s, last.k, source)
       IN /\ Cardinality(h) >= 2
          /\ g.some
          /\ g = section_get(sections, section_index, last.s, last.k, source)
          /\ SectionGet(sections[SetMin(h)], last.k, source) # g
          /\ has_in(sections, section_index, last.s, last.k, source)

----------------------------------------------------------------------------
(* C29, C30 *)

\* C29: rename_section(from, to) with to equal to from ignoring case keeps the
\* group: has_section(to) is true afterwards and all the sections of the group
\* and their properties are still there, their headers relabelled to
CaseOnlyRenameKeepsGroup ==
    (Ready /\ last.op = "rename_section"
        /\ eq_ignore_ascii_case(last.s, last.v)
        /\ has_section(pre.section_index, last.s))
    => /\ has_section(section_index, last.v)
       /\ Len(sections) = Len(pre.sections)
       /\ \A p \in 1..Len(pre.sections) :
            IF p \in Group(pre.sections, last.s, source)
            THEN /\ SectionKey(sections[p], source) = last.v
                 /\ Tail(sections[p]) = Tail(pre.sections[p])
            ELSE sections[p] = pre.sections[p]

\* C30: rename_section(from, to) when no section from exists leaves the
\* document unchanged: the section list, the index and to_string() are as
\* before the call, and an existing to group is not removed
RenameAbsentChangesNothing ==
    (Ready /\ last.op = "rename_section"
        /\ ~has_section(pre.section_index, last.s))
    => /\ sections = pre.sections
       /\ section_index = pre.section_index
       /\ to_string(global_section, sections, source)
            = to_string(pre.global_section, pre.sections, source)
       /\ has_section(pre.section_index, last.v) => has_section(section_index, last.v)

====
